---- MODULE Spec2Model ----
(***************************************************************************)
(* The server watchdog of the Satisfactory bot suite                       *)
(* (src/bots/watchdog_bot.py, with the collaborators of                    *)
(* src/bots/common.py it calls).                                           *)
(*                                                                         *)
(* The bot is one asyncio event loop.  Three coroutines run on it: the    *)
(* patrol loop (tasks.loop(minutes=1)), the daily report loop and the     *)
(* handler of the /force_restart command.  A coroutine runs without       *)
(* interruption between two awaits, so every action below is the code     *)
(* between one await and the next; pc[t] names the await the task t is    *)
(* suspended at.  Taking a step at every await allows every interleaving  *)
(* the event loop allows.                                                  *)
(*                                                                         *)
(* An await of asyncio.Lock.acquire suspends only while the lock is held  *)
(* (`waiting` holds the tasks suspended there); all other awaits of the   *)
(* model suspend.  The code between two suspensions is split into several *)
(* actions where that helps reading; a task in the middle of such a run   *)
(* (Running) keeps the event loop, and no other task and no clock tick    *)
(* takes a step until it suspends.                                        *)
(*                                                                         *)
(* Time is a clock of ticks of TickMinutes minutes: datetime.now() is     *)
(* `now` ticks, timestamps are tick counts.                                *)
(***************************************************************************)
EXTENDS Integers, Sequences, FiniteSets, TLC

\* ---------------------------------------------------------------- constants
SERVER_DOWN_THRESHOLD == 2
MEMORY_LEAK_THRESHOLD == 12000
CONTINUOUS_HIGH_CPU == 5
max_restarts_per_hour == 3
HistoryCap == 10
HourMinutes == 60
alert_cooldown_minutes == 10
CpuLimit == 95

\* one tick of the clock: twice the alert cooldown, a third of an hour
TickMinutes == 2 * alert_cooldown_minutes

\* ------------------------------------------------------------------- bounds
MaxTime == 4
MaxDown == 2
MaxHighMem == 1
MaxHighCpu == 5

\* the clock at startup: one hour after the oldest timestamp of the model
Now0 == HourMinutes \div TickMinutes

Tasks == {"patrol", "force", "daily"}
Restarters == {"patrol", "force"}

VARIABLES
    now,                  \* datetime.now(), in ticks
    down_counter, high_cpu_counter, high_memory_counter,
    restart_count, last_restart, restart_history,
    server_was_running,
    alert_cooldowns,      \* alert type -> time of the last alert, for the
                          \* alerts younger than the cooldown
    lock,                 \* ServerWatchdog._lock: "free" or the task holding it
    waiting,              \* the tasks suspended in ServerWatchdog._lock.acquire
    store,                \* persistent_state.data: {} or {the 'watchdog_state' record}
    pc,                   \* the await each task is suspended at
    status,               \* patrol's local `status` (the sample of this cycle)
    reason,               \* the `reason` argument of the task's restart_server call
    alerts,               \* history: the admin alerts each task sent in its current run
    attempted,            \* history: handlers of this cycle that called restart_server
    limited,              \* history: handlers of this cycle that found the limit reached
    cyc_start,            \* history: the counters when this cycle began
    cpu_run               \* history: consecutive samples with high CPU since the counter was 0

\* ------------------------------------------- the collaborators of common.py
\* The rate limiter, the store and the command validator have their own state
\* and their own specifications below; the watchdog's specification leaves
\* them alone.

\* GlobalRateLimiter(3, 10) (common.py L461)
max_calls == 3
per_seconds == 10

\* one tick of the limiter's clock: half a window
RlTickSeconds == per_seconds \div 2

RlCallers == {"a", "b"}
UserIds == {"u1", "u2"}

VARIABLES
    rl_clock,             \* datetime.now() as the limiter reads it, in ticks
    rl_store,             \* GlobalRateLimiter.store: user id -> deque of timestamps
    rl_lock,              \* GlobalRateLimiter._lock: "free" or the caller holding it
    rl_pc,                \* the statement of allow each caller is at
    rl_call,              \* the locals of each caller's allow: user_id, now, and
                          \* (history) the bucket found at entry
    rl_granted            \* history: user id -> the times of the calls allow approved

limiter_vars == <<rl_clock, rl_store, rl_lock, rl_pc, rl_call, rl_granted>>

NoCall == [user_id |-> "none", now |-> 0, before |-> <<>>]

\* GlobalRateLimiter.__init__ (L432-436)
RlInit ==
    /\ rl_clock = 0
    /\ rl_store = <<>>
    /\ rl_lock = "free"
    /\ rl_pc = [c \in RlCallers |-> "idle"]
    /\ rl_call = [c \in RlCallers |-> NoCall]
    /\ rl_granted = [u \in UserIds |-> <<>>]

VARIABLES
    sp_cmd,               \* the `cmd` argument of the safe_subprocess call
    sp_pc,                \* where that call is: "idle", "running" (in subprocess.run)
                          \* or "returned"
    sp_result,            \* what the call returned: "None" or "completed" ("none": nothing yet)
    sp_ran                \* history: subprocess.run was called for sp_cmd

cmd_vars == <<sp_cmd, sp_pc, sp_result, sp_ran>>

SpInit ==
    /\ sp_cmd = <<>>
    /\ sp_pc = "idle"
    /\ sp_result = "none"
    /\ sp_ran = FALSE

StoreCallers == {"p", "q"}

VARIABLES
    data,                 \* PersistentState.data, the mapping in memory
    file,                 \* the store file on disk
    backup,               \* its .backup sidecar
    ps_lock,              \* PersistentState._lock: "free" or the caller holding it
    ps_pc,                \* the statement of set / save each caller is at
    ps_call,              \* the arguments of each caller's set, and (history) the
                          \* store file it found and whether its write failed
    ps_boot,              \* the number of times the process was started again
    ps_saved              \* history: the watchdog's fields when save_state last
                          \* completed with the file written, <<>> before that

store_vars == <<data, file, backup, ps_lock, ps_pc, ps_call, ps_boot, ps_saved>>

\* what is in a file: nothing (no file), a pickled mapping, or the cut-off
\* output of a write that failed
NoFile == [kind |-> "absent", content |-> <<>>]
Partial == [kind |-> "partial", content |-> <<>>]
Pickled(d) == [kind |-> "mapping", content |-> d]

NoSet == [key |-> "none", value |-> "none", found |-> NoFile, failed |-> FALSE]

\* a first start, without a store file: PersistentState.__init__ (L477-481)
PsInit ==
    /\ data = <<>>
    /\ file = NoFile
    /\ backup = NoFile
    /\ ps_lock = "free"
    /\ ps_pc = [c \in StoreCallers |-> "idle"]
    /\ ps_call = [c \in StoreCallers |-> NoSet]
    /\ ps_boot = 0
    /\ ps_saved = <<>>

VARIABLES
    ld_file,              \* the store file a starting process finds
    ld_pc,                \* the statement of _load the starting process is at
    ld_obj,               \* the local `data` of _load: what pickle.load returned
    ld_data               \* PersistentState.data as _load returned it

load_vars == <<ld_file, ld_pc, ld_obj, ld_data>>

NoObject == [type |-> "none", value |-> <<>>]

\* the first start has found no file and begun with {} (L506, L513)
LdInit ==
    /\ ld_file = NoFile
    /\ ld_pc = "done"
    /\ ld_obj = NoObject
    /\ ld_data = <<>>

VARIABLES
    sd_event,             \* ShutdownHandler._shutdown_event is set
    sd_pc,                \* where the shutdown coroutine is: "none", "cleanup"
                          \* (awaiting bot.close()) or "done"
    sd_closed,            \* bot.close() has completed
    sd_exited,            \* bot.run has returned: the process is gone
    sd_inflight           \* history: the tasks that were between the stop and the
                          \* start of restart_server when the signal arrived

shutdown_vars == <<sd_event, sd_pc, sd_closed, sd_exited, sd_inflight>>

\* ShutdownHandler.__init__ (L581-587)
SdInit ==
    /\ sd_event = FALSE
    /\ sd_pc = "none"
    /\ sd_closed = FALSE
    /\ sd_exited = FALSE
    /\ sd_inflight = {}

\* the bot processes that import common.py, each with its own instance of
\* the store (L548) on the one path STATE_FILE (L472)
BotProcesses == {"watchdog", "manager"}

\* the key each of them writes (watchdog_bot.py L95, manager_bot.py L454)
OwnKey(p) == IF p = "watchdog" THEN "watchdog_state" ELSE "last_performance"

VARIABLES
    sh_data,              \* persistent_state.data of each process
    sh_file,              \* the store file the processes share
    sh_backup,            \* its .backup sidecar
    sh_pc,                \* the statement of set / save each process is at
    sh_last               \* history: key -> the value its owner wrote to the
                          \* file last ("none": nothing yet)

shared_vars == <<sh_data, sh_file, sh_backup, sh_pc, sh_last>>

\* the processes have started without a store file
ShInit ==
    /\ sh_data = [p \in BotProcesses |-> <<>>]
    /\ sh_file = NoFile
    /\ sh_backup = NoFile
    /\ sh_pc = [p \in BotProcesses |-> "idle"]
    /\ sh_last = [k \in {OwnKey(p) : p \in BotProcesses} |-> "none"]

others == <<limiter_vars, cmd_vars, store_vars, load_vars, shutdown_vars, shared_vars>>

OthersInit == RlInit /\ SpInit /\ PsInit /\ LdInit /\ SdInit /\ ShInit

counters == <<down_counter, high_cpu_counter, high_memory_counter>>
restarts == <<restart_count, last_restart, restart_history>>
history  == <<alerts, attempted, limited, cyc_start, cpu_run>>
vars == <<now, counters, restarts, server_was_running, alert_cooldowns, lock,
          waiting, store, pc, status, reason, history, others>>

\* ------------------------------------------------------------ pure helpers

DequeAppendUnbounded(h, e) == Append(h, e)

\* collections.deque(maxlen=10): append drops the oldest entry of a full deque
DequeAppend(h, e) ==
    IF Len(h) >= HistoryCap THEN Append(Tail(h), e) ELSE Append(h, e)

\* deque(list, maxlen=10) keeps the last 10 items of the list
DequeFrom(l) ==
    IF Len(l) > HistoryCap THEN SubSeq(l, Len(l) - HistoryCap + 1, Len(l)) ELSE l

\* the entries of h that can_restart counts at time t
RecentRestarts(h, t) ==
    {i \in 1..Len(h) : h[i].timestamp * TickMinutes > t * TickMinutes - HourMinutes}

can_restart(h, t) == Cardinality(RecentRestarts(h, t)) < max_restarts_per_hour

CooldownOverAtOnce(last, t) == TRUE

\* the cooldown of an alert sent at time last is over at time t
CooldownOver(last, t) == t * TickMinutes > last * TickMinutes + alert_cooldown_minutes

AlwaysSend(c) == TRUE

should_send_alert(c) ==
    \/ c \notin DOMAIN alert_cooldowns
    \/ CooldownOver(alert_cooldowns[c], now)

set_alert_cooldown(c) ==
    [x \in (DOMAIN alert_cooldowns) \cup {c} |-> IF x = c THEN now ELSE alert_cooldowns[x]]

MemoryWarningAtLimit(m) == m >= MEMORY_LEAK_THRESHOLD

\* memory_mb >= MEMORY_LEAK_THRESHOLD * 0.8
MemoryWarning(m) == m * 10 >= MEMORY_LEAK_THRESHOLD * 8

\* the dictionary save_state writes under 'watchdog_state'
WatchdogState(dc, hc, hm, rc, lr, rh) ==
    [down_counter |-> dc, high_cpu_counter |-> hc, high_memory_counter |-> hm,
     restart_count |-> rc, last_restart |-> lr, restart_history |-> rh]

Snapshot == WatchdogState(down_counter, high_cpu_counter, high_memory_counter,
                          restart_count, last_restart, restart_history)

\* common.ALLOWED_COMMANDS: the names validate_command accepts as cmd[0]
ALLOWED_COMMANDS == {"systemctl", "sysctl", "renice", "ionice", "taskset",
                     "pkill", "pgrep", "fail2ban-client", "chown"}

\* safe_subprocess returns None, without running anything, for a command
\* whose first word is not whitelisted
safe_subprocess(cmd0, ran_ok) == cmd0 \in ALLOWED_COMMANDS /\ ran_ok

\* ------------------------------------------------------------------- inputs

\* the store file found at startup: absent, or a 'watchdog_state' record
OldEntry(ts, n) == [timestamp |-> ts, reason |-> "earlier", restart_number |-> n]
HistOf(tss) == [i \in 1..Len(tss) |-> OldEntry(tss[i], i)]

StoredHistories ==
    { HistOf(<<Now0 - 1, Now0 - 1, Now0>>),
      HistOf(<<1, Now0 - 1, Now0 - 1>>),
      HistOf([i \in 1..(HistoryCap + 1) |-> 0]) }

StoredState(h) ==
    WatchdogState(0, 0, 0, 0,
                  IF Len(h) = 0 THEN <<>> ELSE <<h[Len(h)].timestamp>>, h)

StoreFiles == {{}} \cup {{StoredState(h)} : h \in StoredHistories}

\* persistent_state.get('watchdog_state', {}) and the state.get(key, default)
\* of each key
Loaded(f) == IF f = {} THEN WatchdogState(0, 0, 0, 0, <<>>, <<>>)
             ELSE CHOOSE r \in f : TRUE

\* what load_state makes of the store f
load_state(f) == [Loaded(f) EXCEPT !.restart_history = DequeFrom(@)]

\* the samples check_server_status can return
NoStatus == [service_active |-> FALSE, process_running |-> FALSE,
             memory_mb |-> 0, cpu_percent |-> 0, estimated_players |-> 0]

Samples ==
    { [NoStatus EXCEPT !.service_active = a] : a \in BOOLEAN }
    \cup { s \in [service_active : {TRUE}, process_running : {TRUE},
                  memory_mb : {5000, 10000, 13000}, cpu_percent : {50, 96},
                  estimated_players : {0, 3}] :
            s.cpu_percent >= CpuLimit \/ s.estimated_players = 0 }
    \cup { [service_active |-> FALSE, process_running |-> TRUE, memory_mb |-> 5000,
            cpu_percent |-> 50, estimated_players |-> 0] }

IsDownBoth(s) == ~s.service_active /\ ~s.process_running

IsDown(s) == ~s.service_active \/ ~s.process_running

\* -------------------------------------------------------------------- Init

Init ==
    /\ now = Now0
    /\ store \in StoreFiles
    /\ LET st == load_state(store) IN
        /\ down_counter = st.down_counter
        /\ high_cpu_counter = st.high_cpu_counter
        /\ high_memory_counter = st.high_memory_counter
        /\ restart_count = st.restart_count
        /\ last_restart = st.last_restart
        /\ restart_history = st.restart_history
    /\ server_was_running = FALSE
    /\ alert_cooldowns = <<>>
    /\ lock = "free"
    /\ waiting = {}
    /\ pc = [t \in Tasks |-> "idle"]
    /\ status = NoStatus
    /\ reason = [t \in Restarters |-> "none"]
    /\ alerts = [t \in Restarters |-> <<>>]
    /\ attempted = {}
    /\ limited = {}
    /\ cyc_start = <<down_counter, high_cpu_counter, high_memory_counter>>
    /\ cpu_run = IF high_cpu_counter = 0 THEN 0 ELSE -1
    /\ OthersInit

\* ------------------------------------------------------------ action helpers

\* asyncio.Lock.acquire returns only while nobody holds the lock; the lock is
\* not reentrant, so the holder itself waits as well
LockAlwaysAvailable(l) == TRUE

LockAvailable(l) == l = "free"

\* the awaits of ServerWatchdog._lock: the save_state calls and restart_server
SaveLocs == {"down_save", "up_save", "mem_norm_save", "cpu_save",
             "cpu_defer_save", "cpu_norm_save", "rs_save", "d_save"}
LockLocs == SaveLocs \cup {"rs_lock"}

\* places between two awaits
TransientLocs == {"down_decide", "mem", "cpu", "cpu_decide", "done"}

\* the task that has the event loop: it has not reached a suspending await
Running == {t \in Tasks : \/ pc[t] \in TransientLocs
                          \/ pc[t] \in LockLocs /\ t \notin waiting}

MayRun(t) == Running \subseteq {t}

\* the task goes on to loc; at an await of the lock it suspends if the lock
\* is held
Goto(t, loc) ==
    /\ pc' = [pc EXCEPT ![t] = loc]
    /\ waiting' = IF loc \in LockLocs /\ ~LockAvailable(lock)
                  THEN waiting \cup {t} ELSE waiting \ {t}

\* log_admin(bot, text, ping_owner) was called for each <<text, ping_owner>> of as
Sent(t, as) == alerts' = [alerts EXCEPT ![t] = @ \o as]

\* where the caller goes on when restart_server returned False
AfterFailedRestart(r) == CASE r = "offline" -> "done"
                           [] r = "memory"  -> "cpu"
                           [] r = "cpu"     -> "done"
                           [] OTHER         -> "f_followup"

\* what a handler does once it has evaluated its threshold (tripped) and
\* can_restart (permitted)
RestartDecisionUnlimited(tripped, permitted) ==
    IF tripped THEN "restart" ELSE "none"

RestartDecision(tripped, permitted) ==
    IF ~tripped THEN "none" ELSE IF permitted THEN "restart" ELSE "limited"

\* history bookkeeping of a decision of handler h
Decided(h, tripped) ==
    /\ limited' = IF tripped /\ ~can_restart(restart_history, now)
                  THEN limited \cup {h} ELSE limited
    /\ attempted' = IF pc'["patrol"] = "rs_lock" THEN attempted \cup {h} ELSE attempted

\* ------------------------------------------------- restart_server (L307-358)
\* log_admin neither reads nor writes the watchdog, and inside restart_server
\* no alert is followed by a read of state another task can write.  The await
\* of such an alert is therefore not a step of its own: the alert is recorded
\* by the step that reaches it, and the task goes on to the next await.

\* L308: async with self._lock; L310; L312: safe_systemctl('stop') is awaited
RestartAcquire(t) ==
    /\ pc[t] = "rs_lock"
    /\ MayRun(t)
    /\ LockAvailable(lock)
    /\ lock' = t
    /\ Sent(t, <<<<"restart_begin", FALSE>>>>)
    /\ Goto(t, "rs_stop")
    /\ UNCHANGED <<now, counters, restarts, server_was_running, alert_cooldowns,
                   store, status, reason, attempted, limited, cyc_start, cpu_run>>
    /\ UNCHANGED others

\* restart_server returns False: the lock is released and the caller goes on
ReturnFalse(t) ==
    /\ lock' = "free"
    /\ Goto(t, AfterFailedRestart(reason[t]))
    /\ reason' = [reason EXCEPT ![t] = "none"]

\* L312 returned.  After a successful stop: the sleep of L322, then L324:
\* safe_systemctl('start') is awaited.  After a failed one: L315; L316:
\* safe_subprocess(['sudo', 'pkill', ...]); if that fails too, L319-320
\* stop_ok: systemctl stop, once run, returns 0; kill_ok: pkill, once run,
\* returns 0
RestartStopWith(t, stop_ok, kill_ok) ==
    IF safe_subprocess("systemctl", stop_ok)
    THEN /\ Goto(t, "rs_start")
         /\ UNCHANGED <<lock, reason, alerts>>
    ELSE IF safe_subprocess("sudo", kill_ok)
    THEN /\ Sent(t, <<<<"force_stop", FALSE>>>>)
         /\ Goto(t, "rs_start")
         /\ UNCHANGED <<lock, reason>>
    ELSE /\ Sent(t, << <<"force_stop", FALSE>>, <<"force_stop_failed", TRUE>> >>)
         /\ ReturnFalse(t)

RestartStop(t) ==
    /\ pc[t] = "rs_stop"
    /\ MayRun(t)
    /\ \E stop_ok \in BOOLEAN, kill_ok \in BOOLEAN : RestartStopWith(t, stop_ok, kill_ok)
    /\ UNCHANGED <<now, counters, restarts, server_was_running, alert_cooldowns,
                   store, status, attempted, limited, cyc_start, cpu_run>>
    /\ UNCHANGED others

StartFailedAlertWithoutPing == <<"start_failed", FALSE>>

\* L328: log_admin(bot, "Server-Start fehlgeschlagen ...", ping_owner=True)
StartFailedAlert == <<"start_failed", TRUE>>

\* L324 returned.  A failed start: L328-329.  A successful one: L331-339 and
\* the save_state call of L341
RestartStart(t) ==
    /\ pc[t] = "rs_start"
    /\ MayRun(t)
    /\ \E start_ok \in BOOLEAN :
         IF safe_subprocess("systemctl", start_ok)
         THEN /\ restart_count' = restart_count + 1
              /\ last_restart' = <<now>>
              /\ restart_history' = DequeAppend(restart_history,
                     [timestamp |-> now, reason |-> reason[t],
                      restart_number |-> restart_count + 1])
              /\ Goto(t, "rs_save")
              /\ UNCHANGED <<lock, reason, alerts>>
         ELSE /\ Sent(t, <<StartFailedAlert>>)
              /\ ReturnFalse(t)
              /\ UNCHANGED restarts
    /\ UNCHANGED <<now, counters, server_was_running, alert_cooldowns,
                   store, status, attempted, limited, cyc_start, cpu_run>>
    /\ UNCHANGED others

\* ------------------------------------------------------ save_state (L84-97)

\* where the caller of save_state goes on
AfterSave(loc) ==
    CASE loc = "down_save"      -> IF should_send_alert("server_down")
                                   THEN "down_alert" ELSE "down_decide"
      [] loc = "up_save"        -> "up_alert"
      [] loc = "mem_norm_save"  -> "cpu"
      [] loc = "cpu_save"       -> IF should_send_alert("high_cpu")
                                   THEN "cpu_alert" ELSE "cpu_decide"
      [] loc = "cpu_defer_save" -> "done"
      [] loc = "cpu_norm_save"  -> IF should_send_alert("cpu_normalized")
                                   THEN "cpu_norm_alert" ELSE "done"
      [] loc = "rs_save"        -> "rs_ok_alert"
      [] loc = "d_save"         -> "idle"

\* async with self._lock: persistent_state.set('watchdog_state', state).
\* The body has no await that suspends, so the lock is free again afterwards.
SaveState(t) ==
    /\ pc[t] \in SaveLocs
    /\ MayRun(t)
    /\ LockAvailable(lock)
    /\ store' = {Snapshot}
    /\ Goto(t, AfterSave(pc[t]))
    /\ UNCHANGED <<now, counters, restarts, server_was_running, alert_cooldowns,
                   lock, status, reason, history>>
    /\ UNCHANGED others


\* ---------------------------------------------------------- patrol (L376-408)

Min(a, b) == IF a < b THEN a ELSE b
Max(a, b) == IF a > b THEN a ELSE b

\* the loop starts an iteration: check_server_status awaits its probes
PatrolStart ==
    /\ pc["patrol"] = "idle"
    /\ MayRun("patrol")
    /\ Goto("patrol", "check")
    /\ UNCHANGED <<now, counters, restarts, server_was_running, alert_cooldowns,
                   lock, store, status, reason, history>>
    /\ UNCHANGED others

\* check_server_status returns the sample s (L136-164); patrol classifies it
\* (L387) and goes on to L170-171, to L391-393 or to L398
CheckServerStatus ==
    /\ pc["patrol"] = "check"
    /\ MayRun("patrol")
    /\ \E s \in Samples :
        /\ IsDown(s) => down_counter < MaxDown
        /\ (~IsDown(s) /\ MemoryWarning(s.memory_mb)) => high_memory_counter < MaxHighMem
        /\ (~IsDown(s) /\ s.cpu_percent >= CpuLimit) => high_cpu_counter < MaxHighCpu
        /\ status' = s
        /\ server_was_running' = s.process_running
        /\ IF IsDown(s)
           THEN /\ down_counter' = down_counter + 1
                /\ Goto("patrol", "down_save")
                /\ cpu_run' = IF high_cpu_counter = 0 THEN 0 ELSE -1
           ELSE /\ down_counter' = 0
                /\ Goto("patrol", IF down_counter > 0 THEN "up_save" ELSE "mem")
                /\ UNCHANGED cpu_run
    /\ UNCHANGED <<now, high_cpu_counter, high_memory_counter, restarts,
                   alert_cooldowns, lock, store, reason, alerts, attempted,
                   limited, cyc_start>>
    /\ UNCHANGED others

\* L394 returned; L396-398: handle_high_memory is called
UpAlert ==
    /\ pc["patrol"] = "up_alert"
    /\ MayRun("patrol")
    /\ Sent("patrol", <<<<"recovered", FALSE>>>>)
    /\ Goto("patrol", "mem")
    /\ UNCHANGED <<now, counters, restarts, server_was_running, alert_cooldowns,
                   lock, store, status, reason, attempted, limited, cyc_start, cpu_run>>
    /\ UNCHANGED others

\* ---- handle_server_down (L166-205)

\* L176 returned; L181
DownAlert ==
    /\ pc["patrol"] = "down_alert"
    /\ MayRun("patrol")
    /\ Sent("patrol", <<<<"server_down", down_counter >= SERVER_DOWN_THRESHOLD>>>>)
    /\ alert_cooldowns' = set_alert_cooldown("server_down")
    /\ Goto("patrol", "down_decide")
    /\ UNCHANGED <<now, counters, restarts, server_was_running, lock, store,
                   status, reason, attempted, limited, cyc_start, cpu_run>>
    /\ UNCHANGED others

\* L183-185 and L194
HandleServerDownDecide ==
    /\ pc["patrol"] = "down_decide"
    /\ MayRun("patrol")
    /\ LET tripped == down_counter >= SERVER_DOWN_THRESHOLD
           d == RestartDecision(tripped, can_restart(restart_history, now))
       IN /\ Goto("patrol", CASE d = "restart" -> "rs_lock"
                              [] d = "limited" -> "down_limit_alert"
                              [] OTHER         -> "done")
          /\ reason' = [reason EXCEPT !["patrol"] =
                            IF d = "restart" THEN "offline" ELSE @]
          /\ Decided("down", tripped)
    /\ UNCHANGED <<now, counters, restarts, server_was_running, alert_cooldowns,
                   lock, store, status, alerts, cyc_start, cpu_run>>
    /\ UNCHANGED others

\* L194 returned; L199, L205
DownLimitAlert ==
    /\ pc["patrol"] = "down_limit_alert"
    /\ MayRun("patrol")
    /\ Sent("patrol", <<<<"limit_reached", TRUE>>>>)
    /\ Goto("patrol", "done")
    /\ UNCHANGED <<now, counters, restarts, server_was_running, alert_cooldowns,
                   lock, store, status, reason, attempted, limited, cyc_start, cpu_run>>
    /\ UNCHANGED others

\* ---- handle_high_memory (L207-251)

\* L211, L231-234, L242-244
HandleHighMemory ==
    /\ pc["patrol"] = "mem"
    /\ MayRun("patrol")
    /\ IF status.memory_mb >= MEMORY_LEAK_THRESHOLD
       THEN /\ Goto("patrol", "mem_crit_alert")
            /\ UNCHANGED high_memory_counter
       ELSE IF MemoryWarning(status.memory_mb)
       THEN /\ high_memory_counter' = high_memory_counter + 1
            /\ Goto("patrol", IF should_send_alert("high_memory")
                              THEN "mem_warn_alert" ELSE "cpu")
       ELSE /\ high_memory_counter' = 0
            /\ Goto("patrol", IF high_memory_counter > 0 THEN "mem_norm_save" ELSE "cpu")
    /\ UNCHANGED <<now, down_counter, high_cpu_counter, restarts, server_was_running,
                   alert_cooldowns, lock, store, status, reason, history>>
    /\ UNCHANGED others

\* L212 returned; L218-219 and L229
MemCritAlert ==
    /\ pc["patrol"] = "mem_crit_alert"
    /\ MayRun("patrol")
    /\ Sent("patrol", <<<<"memory_critical", TRUE>>>>)
    /\ LET d == RestartDecision(TRUE, can_restart(restart_history, now))
       IN /\ Goto("patrol", IF d = "restart" THEN "rs_lock" ELSE "cpu")
          /\ reason' = [reason EXCEPT !["patrol"] =
                            IF d = "restart" THEN "memory" ELSE @]
          /\ Decided("mem", TRUE)
    /\ UNCHANGED <<now, counters, restarts, server_was_running, alert_cooldowns,
                   lock, store, status, cyc_start, cpu_run>>
    /\ UNCHANGED others

\* L235 returned; L239-240
MemWarnAlert ==
    /\ pc["patrol"] = "mem_warn_alert"
    /\ MayRun("patrol")
    /\ Sent("patrol", <<<<"memory_warning", FALSE>>>>)
    /\ alert_cooldowns' = set_alert_cooldown("high_memory")
    /\ Goto("patrol", "cpu")
    /\ UNCHANGED <<now, counters, restarts, server_was_running, lock, store,
                   status, reason, attempted, limited, cyc_start, cpu_run>>
    /\ UNCHANGED others

\* ---- handle_high_cpu (L253-305)

\* L257-259 and L291-293
HandleHighCpu ==
    /\ pc["patrol"] = "cpu"
    /\ MayRun("patrol")
    /\ IF status.cpu_percent >= CpuLimit
       THEN /\ high_cpu_counter' = high_cpu_counter + 1
            /\ Goto("patrol", "cpu_save")
            /\ cpu_run' = IF cpu_run < 0 THEN cpu_run
                          ELSE Min(cpu_run + 1, CONTINUOUS_HIGH_CPU + 1)
       ELSE /\ high_cpu_counter' = 0
            /\ Goto("patrol", IF high_cpu_counter > 0 THEN "cpu_norm_save" ELSE "done")
            /\ cpu_run' = 0
    /\ UNCHANGED <<now, down_counter, high_memory_counter, restarts, server_was_running,
                   alert_cooldowns, lock, store, status, reason, alerts, attempted,
                   limited, cyc_start>>
    /\ UNCHANGED others

\* L262 returned; L266
CpuAlert ==
    /\ pc["patrol"] = "cpu_alert"
    /\ MayRun("patrol")
    /\ Sent("patrol", <<<<"cpu_warning", FALSE>>>>)
    /\ alert_cooldowns' = set_alert_cooldown("high_cpu")
    /\ Goto("patrol", "cpu_decide")
    /\ UNCHANGED <<now, counters, restarts, server_was_running, lock, store,
                   status, reason, attempted, limited, cyc_start, cpu_run>>
    /\ UNCHANGED others

\* L268-270, L279-280 and L289
HandleHighCpuDecide ==
    /\ pc["patrol"] = "cpu_decide"
    /\ MayRun("patrol")
    /\ LET reached == high_cpu_counter >= CONTINUOUS_HIGH_CPU
           tripped == reached /\ ~(status.estimated_players > 0)
           d == RestartDecision(tripped, can_restart(restart_history, now))
       IN /\ Goto("patrol", CASE reached /\ ~tripped -> "cpu_defer_alert"
                              [] d = "restart"     -> "rs_lock"
                              [] OTHER             -> "done")
          /\ reason' = [reason EXCEPT !["patrol"] =
                            IF d = "restart" THEN "cpu" ELSE @]
          /\ Decided("cpu", tripped)
    /\ UNCHANGED <<now, counters, restarts, server_was_running, alert_cooldowns,
                   lock, store, status, alerts, cyc_start, cpu_run>>
    /\ UNCHANGED others

\* the counter left where it is
DeferredCpuCounterKept == CONTINUOUS_HIGH_CPU

\* L275: max(CONTINUOUS_HIGH_CPU - 2, 0)
DeferredCpuCounter == Max(CONTINUOUS_HIGH_CPU - 2, 0)

\* L270 returned; L275-276
CpuDeferAlert ==
    /\ pc["patrol"] = "cpu_defer_alert"
    /\ MayRun("patrol")
    /\ Sent("patrol", <<<<"cpu_deferred", TRUE>>>>)
    /\ high_cpu_counter' = DeferredCpuCounter
    /\ Goto("patrol", "cpu_defer_save")
    /\ UNCHANGED <<now, down_counter, high_memory_counter, restarts, server_was_running,
                   alert_cooldowns, lock, store, status, reason, attempted, limited,
                   cyc_start, cpu_run>>
    /\ UNCHANGED others

\* L296 returned; L297-299
CpuNormAlert ==
    /\ pc["patrol"] = "cpu_norm_alert"
    /\ MayRun("patrol")
    /\ Sent("patrol", <<<<"cpu_normalized", FALSE>>>>)
    /\ alert_cooldowns' = set_alert_cooldown("cpu_normalized")
    /\ Goto("patrol", "done")
    /\ UNCHANGED <<now, counters, restarts, server_was_running, lock, store,
                   status, reason, attempted, limited, cyc_start, cpu_run>>
    /\ UNCHANGED others

\* L404-405: the iteration is over, the loop sleeps until the next one
\* (the history of the cycle is dropped with it)
PatrolDone ==
    /\ pc["patrol"] = "done"
    /\ MayRun("patrol")
    /\ Goto("patrol", "idle")
    /\ status' = NoStatus
    /\ alerts' = [alerts EXCEPT !["patrol"] = <<>>]
    /\ attempted' = {}
    /\ limited' = {}
    /\ cyc_start' = <<down_counter, high_cpu_counter, high_memory_counter>>
    /\ UNCHANGED <<now, counters, restarts, server_was_running, alert_cooldowns,
                   lock, store, reason, cpu_run>>
    /\ UNCHANGED others

\* ------------------------------------------------ force_restart_cmd (L483-503)

\* the command passed its checks and L490, L493 returned; L495:
\* restart_server is called
ForceInvoke ==
    /\ pc["force"] = "idle"
    /\ MayRun("force")
    /\ Sent("force", <<<<"force_restart", FALSE>>>>)
    /\ Goto("force", "rs_lock")
    /\ reason' = [reason EXCEPT !["force"] = "force"]
    /\ UNCHANGED <<now, counters, restarts, server_was_running, alert_cooldowns,
                   lock, store, status, attempted, limited, cyc_start, cpu_run>>
    /\ UNCHANGED others

\* L500 returned
ForceFollowup ==
    /\ pc["force"] = "f_followup"
    /\ MayRun("force")
    /\ Goto("force", "idle")
    /\ alerts' = [alerts EXCEPT !["force"] = <<>>]
    /\ UNCHANGED <<now, counters, restarts, server_was_running, alert_cooldowns,
                   lock, store, status, reason, attempted, limited, cyc_start, cpu_run>>
    /\ UNCHANGED others

\* ----------------------------------------------------- daily_report (L410-436)

\* L430 returned; L432-433
DailyReport ==
    /\ pc["daily"] = "idle"
    /\ MayRun("daily")
    /\ restart_count' = 0
    /\ Goto("daily", "d_save")
    /\ UNCHANGED <<now, counters, last_restart, restart_history, server_was_running,
                   alert_cooldowns, lock, store, status, reason, history>>
    /\ UNCHANGED others

\* ---------------------------------------------------------------------- time

\* The clock advances.  An entry of alert_cooldowns whose cooldown is over
\* answers should_send_alert like a missing one, now and at every later time;
\* the model drops it.
Tick ==
    /\ Running = {}
    /\ now < MaxTime
    /\ now' = now + 1
    /\ alert_cooldowns' =
         [c \in {x \in DOMAIN alert_cooldowns : ~CooldownOver(alert_cooldowns[x], now + 1)}
            |-> alert_cooldowns[c]]
    /\ UNCHANGED <<counters, restarts, server_was_running, lock,
                   waiting, store, pc, status, reason, history>>
    /\ UNCHANGED others

\* ------------------------------------------------------------ specification

PatrolStep ==
    \/ PatrolStart \/ CheckServerStatus \/ UpAlert
    \/ DownAlert \/ HandleServerDownDecide \/ DownLimitAlert
    \/ HandleHighMemory \/ MemCritAlert \/ MemWarnAlert
    \/ HandleHighCpu \/ CpuAlert \/ HandleHighCpuDecide \/ CpuDeferAlert \/ CpuNormAlert
    \/ PatrolDone

RestartStep(t) == RestartAcquire(t) \/ RestartStop(t) \/ RestartStart(t)

Next ==
    \/ PatrolStep
    \/ ForceInvoke \/ ForceFollowup
    \/ DailyReport
    \/ \E t \in Restarters : RestartStep(t)
    \/ \E t \in Tasks : SaveState(t)
    \/ Tick

Spec == Init /\ [][Next]_vars


\* The event loop runs every task that can go on, external calls return
\* (safe_subprocess has a timeout), the loops keep starting iterations, and
\* asyncio.Lock wakes its waiters in turn.
Fairness ==
    /\ WF_vars(PatrolStep)
    /\ WF_vars(ForceFollowup)
    /\ \A t \in Restarters : SF_vars(RestartStep(t))
    /\ \A t \in Tasks : SF_vars(SaveState(t))

\* startup on the store file whose oldest entry leaves the window at the
\* first tick
InitSliding ==
    /\ Init
    /\ store = {StoredState(HistOf(<<1, Now0 - 1, Now0 - 1>>))}

FairSpec == InitSliding /\ [][Next]_vars /\ Fairness

\* ================================================================== claims

\* the task is inside restart_server, between the start-of-restart alert and
\* the return
InRestart(t) == pc[t] \in {"rs_stop", "rs_start", "rs_save"}

\* C1: at any time at most one invocation of restart_server is in progress
C1_OneRestartAtATime == Cardinality({t \in Restarters : InRestart(t)}) <= 1

C1_Witness ==
    \E t \in Restarters, u \in Restarters :
        InRestart(t) /\ pc[u] = "rs_lock" /\ u \in waiting

\* C2: every restart procedure that begins, whatever its trigger, begins only
\* while fewer than max_restarts_per_hour entries of the history are within
\* the trailing hour
C2_BeginsOnlyWithinLimit ==
    \A t \in Restarters : pc[t] = "rs_stop" => can_restart(restart_history, now)

\* C3: a handler that finds the limit reached calls no restart; the handler
\* of a down sample then sends the ping-level alert and leaves down_counter at
\* its incremented value
C3_LimitedHandlerDoesNotRestart ==
    /\ limited \cap attempted = {}
    /\ "down" \in limited =>
        /\ pc["patrol"] \in {"down_limit_alert", "done"}
        /\ down_counter = cyc_start[1] + 1
        /\ down_counter >= SERVER_DOWN_THRESHOLD
        /\ pc["patrol"] = "done" =>
             /\ alerts["patrol"] # <<>>
             /\ alerts["patrol"][Len(alerts["patrol"])] = <<"limit_reached", TRUE>>

C3_Witness ==
    /\ "down" \in limited
    /\ pc["patrol"] = "done"
    /\ ~can_restart(restart_history, now)

\* C4: within one sampling cycle restart_server is called at most once
C4_OneRestartPerCycle == Cardinality(attempted) <= 1

\* C5: every sampling cycle eventually finishes
C5_CycleFinishes == (pc["patrol"] # "idle") ~> (pc["patrol"] = "idle")

\* C6: when the restart for an offline server succeeds, down_counter is 0
\* afterwards
C6_DownCounterResetAfterRestart ==
    (pc["patrol"] = "rs_save" /\ reason["patrol"] = "offline")
        ~> (down_counter = 0)

\* C7: when the restart for a memory leak succeeds (stop and start have
\* succeeded and the history has its new entry), high_memory_counter and
\* high_cpu_counter are both 0 from some point of that sampling cycle on
C7_CountersResetAfterMemoryRestart ==
    (pc["patrol"] = "rs_save" /\ reason["patrol"] = "memory")
        ~> (high_memory_counter = 0 /\ high_cpu_counter = 0)

\* the handler of high CPU has taken its decision for the sample of this cycle
CpuDecided ==
    \/ pc["patrol"] = "done" /\ status.cpu_percent >= CpuLimit
    \/ pc["patrol"] \in {"rs_lock", "rs_stop", "rs_start", "rs_save"}
         /\ reason["patrol"] = "cpu"

\* C8 (as claimed): from high_cpu_counter = 0, the sample number
\* CONTINUOUS_HIGH_CPU with high CPU gets a restart if no player is there and
\* none, with the counter at CONTINUOUS_HIGH_CPU - 2, if players are there; no
\* earlier sample of the run gets a restart
C8_RestartOnLastSample ==
    CpuDecided =>
        /\ (cpu_run \in 1..(CONTINUOUS_HIGH_CPU - 1)) => "cpu" \notin attempted
        /\ (cpu_run = CONTINUOUS_HIGH_CPU /\ status.estimated_players = 0)
              => "cpu" \in attempted
        /\ (cpu_run = CONTINUOUS_HIGH_CPU /\ status.estimated_players > 0)
              => /\ "cpu" \notin attempted
                 /\ pc["patrol"] = "done" => high_cpu_counter = CONTINUOUS_HIGH_CPU - 2

\* C8 (amended): the same, with the restart on the last sample only when the
\* hourly limit permits it
C8_RestartOnLastSampleIfPermitted ==
    CpuDecided =>
        /\ (cpu_run \in 1..(CONTINUOUS_HIGH_CPU - 1)) => "cpu" \notin attempted
        /\ (cpu_run = CONTINUOUS_HIGH_CPU /\ status.estimated_players = 0)
              => ("cpu" \in attempted <=> "cpu" \notin limited)
        /\ (cpu_run = CONTINUOUS_HIGH_CPU /\ status.estimated_players > 0)
              => /\ "cpu" \notin attempted
                 /\ pc["patrol"] = "done" => high_cpu_counter = CONTINUOUS_HIGH_CPU - 2

C8_Witness ==
    /\ pc["patrol"] = "rs_stop"
    /\ reason["patrol"] = "cpu"
    /\ cpu_run = CONTINUOUS_HIGH_CPU
    /\ high_cpu_counter = CONTINUOUS_HIGH_CPU

\* C9: the history never holds more than 10 entries, at startup included, and
\* an append to a full history drops the oldest entry and keeps the others in
\* their order
C9_HistoryBounded ==
    /\ Len(restart_history) <= HistoryCap
    /\ [][/\ Len(restart_history') <= HistoryCap
          /\ restart_history' # restart_history =>
               /\ restart_history'[Len(restart_history')].restart_number = restart_count'
               /\ IF Len(restart_history) = HistoryCap
                  THEN SubSeq(restart_history', 1, HistoryCap - 1) = Tail(restart_history)
                  ELSE SubSeq(restart_history', 1, Len(restart_history)) = restart_history
         ]_vars

C9_Witness ==
    \E t \in Restarters :
        /\ pc[t] = "rs_save"
        /\ Len(restart_history) = HistoryCap
        /\ restart_history[1].restart_number = 3
        /\ restart_history[HistoryCap].timestamp = now

\* C10: at the end of every sampling cycle the 'watchdog_state' record of the
\* store holds the watchdog's counters, restart count, last restart and
\* history (a store without the record holds the values load_state starts
\* from)
C10_StateSavedAtEndOfCycle == pc["patrol"] = "done" => load_state(store) = Snapshot

\* the fields of the watchdog the lock is claimed to protect
WatchdogFields == <<down_counter, high_cpu_counter, high_memory_counter,
                    restart_count, restart_history, server_was_running>>

\* C11: while a restart procedure is in flight (its task holds the lock), no
\* step of another task changes a field of the watchdog
C11_NoWriteDuringRestart ==
    [][\A t \in Restarters :
          (InRestart(t) /\ lock = t /\ pc'[t] = pc[t])
              => WatchdogFields' = WatchdogFields]_vars

\* C27: every invocation of restart_server returns and releases the lock
C27_RestartReturns ==
    \A t \in Restarters : (lock = t) ~> (lock = "free")

\* C28: a sample raises down_counter exactly if the service is not active and
\* no process was found; a sample with the service active and a process
\* running sets it to 0, and the way to the 'recovered' alert is taken exactly
\* if it had been above 0
C28_DownCounterRule ==
    [][(pc["patrol"] = "check" /\ pc'["patrol"] # "check")
          => /\ (down_counter' = down_counter + 1)
                    <=> (~status'.service_active /\ ~status'.process_running)
             /\ (status'.service_active /\ status'.process_running)
                    => down_counter' = 0
             /\ (pc'["patrol"] = "up_save")
                    <=> (/\ status'.service_active /\ status'.process_running
                         /\ down_counter > 0)]_vars

\* C29: after a failed stop, a forced termination that succeeds is followed
\* by the wait and the start; the procedure gives up, with the ping-level
\* alert, only after a forced termination that failed
C29_ForcedStopThenStart ==
    [][\A t \in Restarters :
          (pc[t] = "rs_stop" /\ RestartStopWith(t, FALSE, TRUE))
              => pc'[t] = "rs_start"]_vars

\* C30: a restart_server that gives up at the stop or at the start sends a
\* ping-level alert last, returns False to its caller with the lock released,
\* and records no restart
C30_FailedRestartRecordsNothing ==
    [][\A t \in Restarters :
          (pc[t] \in {"rs_stop", "rs_start"}
             /\ pc'[t] \notin {"rs_stop", "rs_start", "rs_save"})
              => /\ restarts' = restarts
                 /\ lock = t /\ lock' = "free"
                 /\ pc'[t] = AfterFailedRestart(reason[t])
                 /\ alerts'[t] # <<>>
                 /\ alerts'[t][Len(alerts'[t])][2] = TRUE]_vars

C30_Witness ==
    \E t \in Restarters :
        /\ pc[t] = AfterFailedRestart("offline") \/ pc[t] = AfterFailedRestart("force")
        /\ alerts[t] # <<>>
        /\ alerts[t][Len(alerts[t])] = StartFailedAlert
        /\ restart_history = <<>>

\* C31: after a successful start (the count is raised and the entry
\* appended, L331-339) the state is persisted and the success alert of L343
\* comes next
C31_PersistedThenSuccessAlert ==
    \A t \in Restarters :
        (pc[t] = "rs_save") ~> (store = {Snapshot} /\ pc[t] = "rs_ok_alert")

\* C32: after a successful start restart_server goes on to the readiness
\* wait of L345 and returns to its caller, whether the server became ready or
\* not
C32_ReturnsAfterSuccessfulStart ==
    \A t \in Restarters : (pc[t] = "rs_save") ~> (pc[t] \notin {"rs_save", "rs_ok_alert"})

\* memory at or above 80% of MEMORY_LEAK_THRESHOLD and below it
InWarningRange(m) == m * 100 >= MEMORY_LEAK_THRESHOLD * 80 /\ m < MEMORY_LEAK_THRESHOLD

BelowWarningRange(m) == m * 100 < MEMORY_LEAK_THRESHOLD * 80

\* the previous alert of category c, if any, is at least the cooldown old
CooldownPermits(c) ==
    \/ c \notin DOMAIN alert_cooldowns
    \/ (now - alert_cooldowns[c]) * TickMinutes >= alert_cooldown_minutes

\* C33: handle_high_memory, for a sample in the warning range, raises
\* high_memory_counter by 1, calls no restart and goes to the warning alert
\* only if the cooldown permits; for a sample below the range it sets the
\* counter to 0 and takes the way of the 'memory_normalized' marker exactly if
\* the counter was above 0
C33_MemoryWarningAndNormal ==
    [][(pc["patrol"] = "mem" /\ pc'["patrol"] # "mem")
          => /\ InWarningRange(status.memory_mb)
                  => /\ high_memory_counter' = high_memory_counter + 1
                     /\ pc'["patrol"] \in {"mem_warn_alert", "cpu"}
                     /\ pc'["patrol"] = "mem_warn_alert" => CooldownPermits("high_memory")
                     /\ attempted' = attempted
             /\ BelowWarningRange(status.memory_mb)
                  => /\ high_memory_counter' = 0
                     /\ pc'["patrol"] \in {"mem_norm_save", "cpu"}
                     /\ pc'["patrol"] = "mem_norm_save" <=> high_memory_counter > 0]_vars

C33_Witness ==
    /\ pc["patrol"] = "mem_norm_save"
    /\ BelowWarningRange(status.memory_mb)
    /\ cyc_start[3] > 0
    /\ high_memory_counter = 0

\* C34 (as claimed): every sample below 95% that finds high_cpu_counter
\* above 0 sets it to 0 and is followed by the 'CPU normalized' alert
C34_NormalizedAlertEveryTime ==
    [][/\ (pc["patrol"] = "cpu" /\ pc'["patrol"] # "cpu" /\ status.cpu_percent < CpuLimit)
            => /\ high_cpu_counter' = 0
               /\ pc'["patrol"] = "cpu_norm_save" <=> high_cpu_counter > 0
       /\ (pc["patrol"] = "cpu_norm_save" /\ pc'["patrol"] # "cpu_norm_save")
            => pc'["patrol"] = "cpu_norm_alert"]_vars

\* C34 (amended): such a sample sets the counter to 0 and is followed by the
\* 'CPU normalized' alert, once, exactly if the cooldown of that alert
\* permits; a sample below 95% that finds the counter at 0 is followed by none
C34_NormalizedAlertIfCooldownPermits ==
    [][/\ (pc["patrol"] = "cpu" /\ pc'["patrol"] # "cpu" /\ status.cpu_percent < CpuLimit)
            => /\ high_cpu_counter' = 0
               /\ pc'["patrol"] \in {"cpu_norm_save", "done"}
               /\ pc'["patrol"] = "cpu_norm_save" <=> high_cpu_counter > 0
       /\ (pc["patrol"] = "cpu_norm_save" /\ pc'["patrol"] # "cpu_norm_save")
            => /\ pc'["patrol"] \in {"cpu_norm_alert", "done"}
               /\ pc'["patrol"] = "cpu_norm_alert" <=> CooldownPermits("cpu_normalized")
       /\ (pc["patrol"] = "cpu_norm_alert" /\ pc'["patrol"] # "cpu_norm_alert")
            => /\ pc'["patrol"] = "done"
               /\ alerts'["patrol"] = Append(alerts["patrol"], <<"cpu_normalized", FALSE>>)]_vars

C34_Witness ==
    /\ pc["patrol"] = "done"
    /\ status.process_running /\ status.service_active
    /\ status.cpu_percent < CpuLimit
    /\ cyc_start[2] > 0
    /\ high_cpu_counter = 0
    /\ "cpu_normalized" \in DOMAIN alert_cooldowns
    /\ \A i \in 1..Len(alerts["patrol"]) : alerts["patrol"][i][1] # "cpu_normalized"

\* the categories of alerts behind should_send_alert, with the await of the
\* alert, the place of the test and the place the handler goes on without
\* the alert
GatedAlerts ==
    { [category |-> "server_down",    test |-> "down_save",     alert |-> "down_alert",
       skip |-> "down_decide"],
      [category |-> "high_memory",    test |-> "mem",           alert |-> "mem_warn_alert",
       skip |-> "cpu"],
      [category |-> "high_cpu",       test |-> "cpu_save",      alert |-> "cpu_alert",
       skip |-> "cpu_decide"],
      [category |-> "cpu_normalized", test |-> "cpu_norm_save", alert |-> "cpu_norm_alert",
       skip |-> "done"] }

\* C35: an alert of a category behind the cooldown is sent only if the
\* previous alert of the category is at least the cooldown old, and is sent
\* whenever there is no previous one
C35_AlertsCooldownApart ==
    [][\A g \in GatedAlerts :
          /\ (pc["patrol"] # g.alert /\ pc'["patrol"] = g.alert)
                => /\ pc["patrol"] = g.test
                   /\ CooldownPermits(g.category)
          /\ (pc["patrol"] = g.alert /\ pc'["patrol"] # g.alert)
                => /\ g.category \in DOMAIN alert_cooldowns'
                   /\ alert_cooldowns'[g.category] = now
          /\ (/\ pc["patrol"] = g.test /\ pc'["patrol"] = g.skip
              /\ g.category = "high_memory" => InWarningRange(status.memory_mb))
                => g.category \in DOMAIN alert_cooldowns]_vars

C35_Witness ==
    /\ pc["patrol"] = "cpu_decide"
    /\ "high_cpu" \in DOMAIN alert_cooldowns
    /\ alerts["patrol"] = <<>>
    /\ high_cpu_counter > 1

\* C36: the daily report, having set restart_count to 0 (L435), gets its
\* save_state of L436 done: the reset is persisted
C36_DailyResetPersisted == (pc["daily"] = "d_save") ~> (pc["daily"] = "idle")

\* C40: in a sampling cycle classified as down (L387) no step changes
\* high_cpu_counter or high_memory_counter, the restart for the offline
\* server included
C40_DownCycleKeepsOtherCounters ==
    [][(/\ pc'["patrol"] \notin {"idle", "check"}
        /\ ~status'.service_active \/ ~status'.process_running)
          => <<high_cpu_counter, high_memory_counter>>'
                = <<high_cpu_counter, high_memory_counter>>]_vars

C40_Witness ==
    /\ pc["patrol"] = "rs_save"
    /\ reason["patrol"] = "offline"
    /\ high_cpu_counter > 0

\* ============================================ GlobalRateLimiter (L429-458)
\* allow is modelled statement by statement, and callers take their steps in
\* any order: what keeps the calls apart is the lock of L440 alone.

\* the watchdog's variables, which the collaborators leave alone
watchdog_vars == <<now, counters, restarts, server_was_running, alert_cooldowns,
                   lock, waiting, store, pc, status, reason, history>>

not_limiter == <<watchdog_vars, cmd_vars, store_vars, load_vars, shutdown_vars,
                 shared_vars>>

\* the bound of the limiter's clock
RlMaxClock == 3

ExpiredAtBoundary(t, n) == (n - t) * RlTickSeconds >= per_seconds

\* L449: now - user_calls[0] > self.per
Expired(t, n) == (n - t) * RlTickSeconds > per_seconds

\* L449-450: while user_calls and now - user_calls[0] > self.per: popleft()
RECURSIVE PruneFront(_, _)
PruneFront(q, n) ==
    IF q # <<>> /\ Expired(Head(q), n) THEN PruneFront(Tail(q), n) ELSE q

LimitExceeded(q) == Len(q) > max_calls

\* L453: len(user_calls) >= self.max_calls
LimitReached(q) == Len(q) >= max_calls

\* the bucket of user u (after L443-444 there is one)
Bucket(u) == IF u \in DOMAIN rl_store THEN rl_store[u] ELSE <<>>

SetBucket(u, q) == [x \in (DOMAIN rl_store) \cup {u} |-> IF x = u THEN q ELSE rl_store[x]]

\* a command arrives: check_global_rate calls allow(user_id) (L466)
RlCall(c) ==
    /\ rl_pc[c] = "idle"
    /\ \E u \in UserIds :
         rl_call' = [rl_call EXCEPT ![c] = [NoCall EXCEPT !.user_id = u]]
    /\ rl_pc' = [rl_pc EXCEPT ![c] = "acquire"]
    /\ UNCHANGED <<rl_clock, rl_store, rl_lock, rl_granted, not_limiter>>

\* L440: async with self._lock; L441: now; L443-446
RlAcquire(c) ==
    /\ rl_pc[c] = "acquire"
    /\ LockAvailable(rl_lock)
    /\ rl_lock' = c
    /\ LET u == rl_call[c].user_id IN
         /\ rl_store' = SetBucket(u, Bucket(u))
         /\ rl_call' = [rl_call EXCEPT ![c].now = rl_clock, ![c].before = Bucket(u)]
    /\ rl_pc' = [rl_pc EXCEPT ![c] = "prune"]
    /\ UNCHANGED <<rl_clock, rl_granted, not_limiter>>

\* L449-450
RlPrune(c) ==
    /\ rl_pc[c] = "prune"
    /\ LET u == rl_call[c].user_id IN
         rl_store' = SetBucket(u, PruneFront(Bucket(u), rl_call[c].now))
    /\ rl_pc' = [rl_pc EXCEPT ![c] = "check"]
    /\ UNCHANGED <<rl_clock, rl_lock, rl_call, rl_granted, not_limiter>>

\* L453-454: at the limit allow returns False, and the lock is released
RlCheck(c) ==
    /\ rl_pc[c] = "check"
    /\ IF LimitReached(Bucket(rl_call[c].user_id))
       THEN /\ rl_call' = [rl_call EXCEPT ![c] = NoCall]
            /\ rl_lock' = "free"
            /\ rl_pc' = [rl_pc EXCEPT ![c] = "idle"]
       ELSE /\ rl_pc' = [rl_pc EXCEPT ![c] = "append"]
            /\ UNCHANGED <<rl_call, rl_lock>>
    /\ UNCHANGED <<rl_clock, rl_store, rl_granted, not_limiter>>

\* L457-458: the call is recorded, allow returns True, and the lock is released
RlAppend(c) ==
    /\ rl_pc[c] = "append"
    /\ LET u == rl_call[c].user_id IN
         /\ rl_store' = SetBucket(u, Append(Bucket(u), rl_call[c].now))
         /\ rl_granted' = [rl_granted EXCEPT ![u] = Append(@, rl_call[c].now)]
    /\ rl_call' = [rl_call EXCEPT ![c] = NoCall]
    /\ rl_lock' = "free"
    /\ rl_pc' = [rl_pc EXCEPT ![c] = "idle"]
    /\ UNCHANGED <<rl_clock, not_limiter>>

\* the clock goes on (it never goes back)
RlTick ==
    /\ rl_clock < RlMaxClock
    /\ rl_clock' = rl_clock + 1
    /\ UNCHANGED <<rl_store, rl_lock, rl_pc, rl_call, rl_granted, not_limiter>>

LimiterNext ==
    \/ \E c \in RlCallers : RlCall(c) \/ RlAcquire(c) \/ RlPrune(c) \/ RlCheck(c) \/ RlAppend(c)
    \/ RlTick

\* the watchdog stays as it starts without a store file
LimiterInit == Init /\ store = {}

LimiterSpec == LimiterInit /\ [][LimiterNext]_vars

\* t lies in the window of length per_seconds that ends at T, ends included
InWindow(t, T) == t <= T /\ (T - t) * RlTickSeconds <= per_seconds

\* C13: for every user and every time T, at most max_calls of the calls allow
\* approved lie within the window of length per_seconds that ends at T
C13_AtMostMaxCallsPerWindow ==
    \A u \in UserIds, T \in 0..RlMaxClock :
        Cardinality({i \in 1..Len(rl_granted[u]) : InWindow(rl_granted[u][i], T)})
            <= max_calls

C13_Witness ==
    \E u \in UserIds :
        /\ Len(rl_granted[u]) > max_calls
        /\ rl_granted[u][max_calls] = 0
        /\ rl_granted[u][max_calls + 1] = RlMaxClock

\* t is strictly older than n minus the window
StrictlyOlder(t, n) == t * RlTickSeconds < n * RlTickSeconds - per_seconds

\* the bucket q without its timestamps strictly older than n minus the window
Kept(q, n) == LET Young(t) == ~StrictlyOlder(t, n) IN SelectSeq(q, Young)

\* C14: allow first discards exactly the timestamps strictly older than now
\* minus the window; with fewer than max_calls left it appends now and returns
\* True, and otherwise it returns False and records nothing
C14_AllowPrunesChecksAppends ==
    [][\A c \in RlCallers :
          LET u == rl_call[c].user_id
              n == rl_call[c].now
              kept == Kept(rl_call[c].before, n)
          IN /\ (rl_pc[c] = "prune" /\ rl_pc'[c] = "check") => rl_store'[u] = kept
             /\ (rl_pc[c] = "check" /\ rl_pc'[c] = "append") => Len(kept) < max_calls
             /\ (rl_pc[c] = "check" /\ rl_pc'[c] = "idle") =>
                    /\ Len(kept) >= max_calls
                    /\ rl_store'[u] = kept
                    /\ rl_granted' = rl_granted
             /\ (rl_pc[c] = "append" /\ rl_pc'[c] = "idle") =>
                    /\ Len(kept) < max_calls
                    /\ rl_store'[u] = Append(kept, n)
                    /\ rl_granted'[u] = Append(rl_granted[u], n)
      ]_vars

C14_Witness ==
    \E c \in RlCallers :
        /\ rl_pc[c] = "append"
        /\ Len(rl_call[c].before) = max_calls
        /\ Len(Bucket(rl_call[c].user_id)) < max_calls

\* C15: under every interleaving of the callers no bucket holds more than
\* max_calls timestamps and every bucket is ordered by time
C15_BucketsBoundedAndOrdered ==
    \A u \in DOMAIN rl_store :
        /\ Len(rl_store[u]) <= max_calls
        /\ \A i \in 1..(Len(rl_store[u]) - 1) : rl_store[u][i] <= rl_store[u][i + 1]

C15_Witness ==
    \E c \in RlCallers, d \in RlCallers :
        /\ rl_pc[c] = "append" /\ rl_pc[d] = "acquire"
        /\ rl_call[c].user_id = rl_call[d].user_id
        /\ Len(Bucket(rl_call[c].user_id)) = max_calls - 1
        /\ rl_call[c].now < rl_clock

\* ================================ validate_command / safe_subprocess (L120-207)
\* Command lists are lists of the words below.  A word is a string; what the
\* code asks of it (its suffix, its part before '=', its characters) is computed
\* from its characters.

not_cmd == <<watchdog_vars, limiter_vars, store_vars, load_vars, shutdown_vars,
             shared_vars>>

\* the longest argument list of the model
MaxArgs == 3

CommandNames == {"systemctl", "sysctl", "chown", "pkill", "sudo", "rm"}

ArgWords == {"stop", "restart", "reboot", "satisfactory.service", "game.service",
             "sshd.socket", "-w", "-n", "vm.swappiness=10", "kernel.panic=1",
             "vm.swappiness", "satisfactory:satisfactory", "root:root", "-f",
             "--", "FactoryServer", "x; rm -rf /"}

\* every list of at most MaxArgs argument words
ArgLists == UNION {[1..n -> ArgWords] : n \in 0..MaxArgs}

\* the command lists handed to safe_subprocess: the empty list, and a name
\* followed by arguments
CommandLists == {<<>>} \cup {<<c>> \o a : c \in CommandNames, a \in ArgLists}

\* ALLOWED_COMMANDS[command] (L120-130)
AllowedArgs(command) ==
    CASE command = "systemctl" -> {"start", "stop", "restart", "status", "is-active", "is-failed"}
      [] command = "sysctl"    -> {"-n", "-w"}
      [] command = "renice"    -> {"-n", "-p"}
      [] command = "ionice"    -> {"-c1", "-c2", "-c3", "-n0", "-n1", "-n2", "-n3", "-n4",
                                   "-n5", "-n6", "-n7", "-p"}
      [] command = "taskset"   -> {"-cp"}
      [] command = "pkill"     -> {"-f"}
      [] command = "pgrep"     -> {"-f"}
      [] command = "fail2ban-client" -> {"status", "set", "unbanall"}
      [] OTHER                 -> {}

\* L132-138
ALLOWED_SYSCTL_PARAMS ==
    {"net.core.rmem_default", "net.core.wmem_default", "net.core.rmem_max",
     "net.core.wmem_max", "net.core.netdev_max_backlog", "net.core.somaxconn",
     "net.ipv4.tcp_rmem", "net.ipv4.tcp_wmem", "net.ipv4.tcp_congestion_control",
     "net.ipv4.tcp_notsent_lowat", "net.ipv4.tcp_slow_start_after_idle",
     "vm.swappiness", "vm.vfs_cache_pressure", "vm.dirty_ratio",
     "vm.dirty_background_ratio", "vm.nr_hugepages"}

\* the i-th character of the word w
CharAt(w, i) == SubSeq(w, i, i)

\* the characters str.isalnum accepts, as far as the words of the model go
AlnumChars ==
    {"a", "b", "c", "d", "e", "f", "g", "h", "i", "j", "k", "l", "m",
     "n", "o", "p", "q", "r", "s", "t", "u", "v", "w", "x", "y", "z",
     "A", "B", "C", "D", "E", "F", "G", "H", "I", "J", "K", "L", "M",
     "N", "O", "P", "Q", "R", "S", "T", "U", "V", "W", "X", "Y", "Z",
     "0", "1", "2", "3", "4", "5", "6", "7", "8", "9"}

\* the characters the generic rule strips before it asks isalnum (L173)
StrippedChars == {"-", "_", ".", "/"}

\* w.endswith(suffix)
EndsWith(w, suffix) ==
    /\ Len(w) >= Len(suffix)
    /\ SubSeq(w, Len(w) - Len(suffix) + 1, Len(w)) = suffix

\* service.endswith('.service')
EndsWithService(w) == EndsWith(w, ".service")

WholeArgument(w) == w

\* args[1].split('=')[0]: the word up to its first '=', the whole word
\* without one
BeforeEquals(w) ==
    LET eqs == {i \in 1..Len(w) : CharAt(w, i) = "="}
    IN  IF eqs = {} THEN w
        ELSE SubSeq(w, 1, (CHOOSE i \in eqs : \A j \in eqs : i <= j) - 1)

\* arg.replace('-', '').replace('_', '').replace('.', '').replace('/', '').isalnum():
\* str.isalnum is False for the empty string
AlnumWithoutPunctuation(w) ==
    LET kept == {i \in 1..Len(w) : CharAt(w, i) \notin StrippedChars}
    IN  /\ kept # {}
        /\ \A i \in kept : CharAt(w, i) \in AlnumChars

\* validate_command (L140-176)
validate_command(command, args) ==
    IF command \notin ALLOWED_COMMANDS THEN FALSE
    ELSE IF command = "systemctl"
    THEN IF Len(args) < 2 THEN FALSE
         ELSE args[1] \in AllowedArgs(command) /\ EndsWithService(args[2])
    ELSE IF command = "sysctl" /\ Len(args) < 2 THEN FALSE
    ELSE IF command = "sysctl" /\ args[1] = "-w"
    THEN BeforeEquals(args[2]) \in ALLOWED_SYSCTL_PARAMS
    ELSE IF command = "sysctl" /\ args[1] = "-n"
    THEN args[2] \in ALLOWED_SYSCTL_PARAMS
    ELSE IF command = "chown"
    THEN Len(args) >= 2 /\ args[1] = "satisfactory:satisfactory"
    ELSE \A i \in 1..Len(args) :
            args[i] \in AllowedArgs(command) \/ AlnumWithoutPunctuation(args[i])

CmdAcceptedUnchecked(cmd) == cmd # <<>>

\* L181-189: safe_subprocess goes on to subprocess.run
CmdAccepted(cmd) == cmd # <<>> /\ validate_command(Head(cmd), Tail(cmd))

\* safe_subprocess(cmd) is called: L181-189, then L194-198, where
\* subprocess.run is awaited
SpCall ==
    /\ sp_pc = "idle"
    /\ \E cmd \in CommandLists :
         /\ sp_cmd' = cmd
         /\ IF CmdAccepted(cmd)
            THEN sp_pc' = "running" /\ sp_ran' = TRUE /\ sp_result' = "none"
            ELSE sp_pc' = "returned" /\ sp_ran' = FALSE /\ sp_result' = "None"
    /\ UNCHANGED not_cmd

\* subprocess.run returned (L200), ran into its timeout (L202-204) or raised
\* (L205-207)
SpFinish ==
    /\ sp_pc = "running"
    /\ \E outcome \in {"completed", "timeout", "error"} :
         sp_result' = IF outcome = "completed" THEN "completed" ELSE "None"
    /\ sp_pc' = "returned"
    /\ UNCHANGED <<sp_cmd, sp_ran, not_cmd>>

\* the caller has its answer
SpReturn ==
    /\ sp_pc = "returned"
    /\ sp_pc' = "idle"
    /\ sp_cmd' = <<>>
    /\ sp_result' = "none"
    /\ sp_ran' = FALSE
    /\ UNCHANGED not_cmd

CmdNext == SpCall \/ SpFinish \/ SpReturn

CmdInit == Init /\ store = {}

CmdSpec == CmdInit /\ [][CmdNext]_vars

\* C16: safe_subprocess runs the command only if validate_command returned
\* True; a command whose name is not in ALLOWED_COMMANDS, or whose arguments
\* are rejected, is not run and the call returns None
C16_RunsOnlyValidatedCommands ==
    /\ sp_ran => (sp_cmd # <<>> /\ validate_command(Head(sp_cmd), Tail(sp_cmd)))
    /\ (sp_cmd # <<>> /\ Head(sp_cmd) \notin ALLOWED_COMMANDS) => ~sp_ran
    /\ (sp_pc = "returned" /\ sp_cmd # <<>>
          /\ ~validate_command(Head(sp_cmd), Tail(sp_cmd)))
            => (~sp_ran /\ sp_result = "None")

C16_Witness ==
    /\ sp_pc = "returned"
    /\ sp_cmd = <<"sudo", "-f", "FactoryServer">>
    /\ sp_result = "None"

\* In every state with a command at hand (sp_cmd # <<>>) the call is past
\* L187, and subprocess.run was called (sp_ran) exactly if validate_command
\* returned True.

\* C22: validate_command accepts systemctl restart game.service and
\* sysctl -w vm.swappiness=10, and rejects systemctl reboot game.service and
\* sysctl -w kernel.panic=1
C22_Examples ==
    /\ sp_cmd = <<"systemctl", "restart", "game.service">> => sp_ran
    /\ sp_cmd = <<"systemctl", "reboot", "game.service">> => ~sp_ran
    /\ sp_cmd = <<"sysctl", "-w", "vm.swappiness=10">> => sp_ran
    /\ sp_cmd = <<"sysctl", "-w", "kernel.panic=1">> => ~sp_ran

C22_Witness ==
    /\ sp_cmd = <<"sysctl", "-w", "vm.swappiness=10">>
    /\ sp_pc = "running"

\* C23: a systemctl command is accepted exactly if its arguments are one
\* allowed action followed by one name ending in .service, and nothing else
C23_ServiceControlExactlyTwoArgs ==
    (sp_cmd # <<>> /\ Head(sp_cmd) = "systemctl")
        => (sp_ran <=> /\ Len(sp_cmd) = 3
                       /\ sp_cmd[2] \in AllowedArgs("systemctl")
                       /\ EndsWithService(sp_cmd[3]))

\* the argument w is an assignment key=value
IsAssignment(w) == \E i \in 1..Len(w) : CharAt(w, i) = "="

\* C24: a sysctl command is accepted only if every parameter it writes (every
\* argument key=value) has its key in ALLOWED_SYSCTL_PARAMS
C24_SysctlKeysAllowListed ==
    (sp_cmd # <<>> /\ Head(sp_cmd) = "sysctl" /\ sp_ran)
        => \A i \in 2..Len(sp_cmd) :
              IsAssignment(sp_cmd[i]) => BeforeEquals(sp_cmd[i]) \in ALLOWED_SYSCTL_PARAMS

\* the whitelisted commands without a rule of their own
GenericCommands == ALLOWED_COMMANDS \ {"systemctl", "sysctl", "chown"}

\* w consists of alphanumeric characters, '.', '-', '_' and '/' only
OnlyPlainChars(w) == \A i \in 1..Len(w) : CharAt(w, i) \in AlnumChars \cup StrippedChars

\* C25: a command under the generic rule is accepted exactly if every
\* argument is in the command's allowed list or consists of alphanumeric
\* characters, '.', '-', '_' and '/' only
C25_GenericRule ==
    (sp_cmd # <<>> /\ Head(sp_cmd) \in GenericCommands)
        => (sp_ran <=> \A i \in 2..Len(sp_cmd) :
                          \/ sp_cmd[i] \in AllowedArgs(Head(sp_cmd))
                          \/ OnlyPlainChars(sp_cmd[i]))

\* ================================================ PersistentState (L474-548)
\* set and save have no await that suspends (the lock of L517 is free whenever
\* it is asked for), so a call of set runs from its first statement to its
\* return without another task of the process in between.  The statements are
\* separate steps all the same, each with its outcomes.

\* what the store's steps leave alone
not_store == <<now, alert_cooldowns, lock, waiting, store, pc, status, reason,
               history, limiter_vars, cmd_vars, load_vars, shutdown_vars,
               shared_vars>>
wd_fields == <<counters, restarts, server_was_running>>

\* the bound on process restarts
MaxBoots == 2

\* values of the key 'last_performance' (manager_bot.py L454)
PerfValues == {"perf_a", "perf_b"}

\* self.data[key] = value
MapSet(d, k, v) == [x \in (DOMAIN d) \cup {k} |-> IF x = k THEN v ELSE d[x]]

\* _load (L504-513): the pickled mapping; {} without a file or when
\* pickle.load fails
Load(f) == IF f.kind = "mapping" THEN f.content ELSE <<>>

\* persistent_state.get('watchdog_state', {}), as load_state takes it
WdRecord(d) == IF "watchdog_state" \in DOMAIN d THEN {d["watchdog_state"]} ELSE {}

\* no other caller is inside set
PsMayRun(c) == \A d \in StoreCallers \ {c} : ps_pc[d] = "idle"

NoHolder(c) == "free"

\* L517: the lock belongs to the caller
Holder(c) == c

BackupStale(f, b) == b

\* L522: self.filepath.rename(backup) makes the file the sidecar
BackupAfterRename(f, b) == f

\* the watchdog writes its fields in memory (check_server_status L158, the
\* counters of the handlers)
WdObserve ==
    /\ \A c \in StoreCallers : ps_pc[c] = "idle"
    /\ \E dc \in 0..MaxDown, r \in BOOLEAN :
         /\ <<dc, r>> # <<down_counter, server_was_running>>
         /\ down_counter' = dc
         /\ server_was_running' = r
    /\ UNCHANGED <<high_cpu_counter, high_memory_counter, restarts, store_vars, not_store>>

\* set(key, value) is called, by save_state (watchdog_bot.py L87-95) or for
\* another key; L544, then L545: save is called
PsSet(c) ==
    /\ ps_pc[c] = "idle"
    /\ PsMayRun(c)
    /\ \E kv \in {<<"watchdog_state", Snapshot>>} \cup {<<"last_performance", v>> : v \in PerfValues} :
         /\ data' = MapSet(data, kv[1], kv[2])
         /\ ps_call' = [ps_call EXCEPT ![c] =
                           [key |-> kv[1], value |-> kv[2], found |-> file, failed |-> FALSE]]
    /\ ps_pc' = [ps_pc EXCEPT ![c] = "acquire"]
    /\ UNCHANGED <<file, backup, ps_lock, ps_boot, ps_saved, wd_fields, not_store>>

\* L517: async with self._lock
PsAcquire(c) ==
    /\ ps_pc[c] = "acquire"
    /\ PsMayRun(c)
    /\ LockAvailable(ps_lock)
    /\ ps_lock' = Holder(c)
    /\ ps_pc' = [ps_pc EXCEPT ![c] = "rename"]
    /\ UNCHANGED <<data, file, backup, ps_call, ps_boot, ps_saved, wd_fields, not_store>>

\* L520-522: an existing file becomes the .backup sidecar
PsRename(c) ==
    /\ ps_pc[c] = "rename"
    /\ PsMayRun(c)
    /\ IF file # NoFile
       THEN backup' = BackupAfterRename(file, backup) /\ file' = NoFile
       ELSE UNCHANGED <<file, backup>>
    /\ ps_pc' = [ps_pc EXCEPT ![c] = "write"]
    /\ UNCHANGED <<data, ps_lock, ps_call, ps_boot, ps_saved, wd_fields, not_store>>

\* L524-525: the mapping is written.  When open or pickle.dump raises, there
\* is no file or a cut-off one, L535-536 logs the error, the lock is released
\* and save returns
PsWrite(c) ==
    /\ ps_pc[c] = "write"
    /\ PsMayRun(c)
    /\ \E outcome \in {"written", "open_failed", "dump_failed"} :
         IF outcome = "written"
         THEN /\ file' = Pickled(data)
              /\ ps_pc' = [ps_pc EXCEPT ![c] = "cleanup"]
              /\ UNCHANGED <<ps_lock, ps_call>>
         ELSE /\ file' = IF outcome = "open_failed" THEN file ELSE Partial
              /\ ps_call' = [ps_call EXCEPT ![c].failed = TRUE]
              /\ ps_lock' = "free"
              /\ ps_pc' = [ps_pc EXCEPT ![c] = "returned"]
    /\ UNCHANGED <<data, backup, ps_boot, ps_saved, wd_fields, not_store>>

\* L528-533: chmod, the sidecar is deleted; the lock is released and save
\* returns
PsCleanup(c) ==
    /\ ps_pc[c] = "cleanup"
    /\ PsMayRun(c)
    /\ backup' = NoFile
    /\ ps_lock' = "free"
    /\ ps_saved' = IF ps_call[c].key = "watchdog_state"
                   THEN <<ps_call[c].value, server_was_running>> ELSE ps_saved
    /\ ps_pc' = [ps_pc EXCEPT ![c] = "returned"]
    /\ UNCHANGED <<data, file, ps_call, ps_boot, wd_fields, not_store>>

\* set has returned to its caller
PsReturn(c) ==
    /\ ps_pc[c] = "returned"
    /\ PsMayRun(c)
    /\ ps_pc' = [ps_pc EXCEPT ![c] = "idle"]
    /\ ps_call' = [ps_call EXCEPT ![c] = NoSet]
    /\ UNCHANGED <<data, file, backup, ps_lock, ps_boot, ps_saved, wd_fields, not_store>>

\* the process ends and is started again: PersistentState.__init__ (L477-481)
\* loads the file, ServerWatchdog.__init__ (L44-65) sets its fields and calls
\* load_state
ProcessRestart ==
    /\ \A c \in StoreCallers : ps_pc[c] = "idle"
    /\ ps_boot < MaxBoots
    /\ ps_boot' = ps_boot + 1
    /\ data' = Load(file)
    /\ LET st == load_state(WdRecord(Load(file))) IN
         /\ down_counter' = st.down_counter
         /\ high_cpu_counter' = st.high_cpu_counter
         /\ high_memory_counter' = st.high_memory_counter
         /\ restart_count' = st.restart_count
         /\ last_restart' = st.last_restart
         /\ restart_history' = st.restart_history
    /\ server_was_running' = FALSE
    /\ UNCHANGED <<file, backup, ps_lock, ps_pc, ps_call, ps_saved, not_store>>

\* the steps of save between taking the lock and releasing it: the rename of
\* L522, the write of L524-525, chmod and the delete of L528-533
InsideSave == {"rename", "write", "cleanup"}

\* the process is killed while caller c is inside save, and is started again
\* (L477-481, L504-513: the new process loads the file it finds; the .backup
\* sidecar is not looked at).  A process killed during pickle.dump leaves a
\* cut-off file
PsCrash(c) ==
    /\ ps_pc[c] \in InsideSave
    /\ \E cut \in BOOLEAN :
         file' = IF ps_pc[c] = "write" /\ cut THEN Partial ELSE file
    /\ data' = Load(file')
    /\ LET st == load_state(WdRecord(Load(file'))) IN
         /\ down_counter' = st.down_counter
         /\ high_cpu_counter' = st.high_cpu_counter
         /\ high_memory_counter' = st.high_memory_counter
         /\ restart_count' = st.restart_count
         /\ last_restart' = st.last_restart
         /\ restart_history' = st.restart_history
    /\ server_was_running' = FALSE
    /\ ps_lock' = "free"
    /\ ps_pc' = [d \in StoreCallers |-> "idle"]
    /\ ps_call' = [d \in StoreCallers |-> NoSet]
    /\ UNCHANGED <<backup, ps_boot, ps_saved, not_store>>

StoreNext ==
    \/ WdObserve
    \/ \E c \in StoreCallers :
          PsSet(c) \/ PsAcquire(c) \/ PsRename(c) \/ PsWrite(c) \/ PsCleanup(c) \/ PsReturn(c)
    \/ ProcessRestart

StoreInit == Init /\ store = {}

StoreSpec == StoreInit /\ [][StoreNext]_vars

\* the store in a process that can be killed at any step of save
CrashNext ==
    \/ WdObserve
    \/ \E c \in StoreCallers :
          PsSet(c) \/ PsAcquire(c) \/ PsRename(c) \/ PsWrite(c) \/ PsCleanup(c) \/ PsReturn(c)
    \/ ProcessRestart
    \/ \E c \in StoreCallers : PsCrash(c)

CrashSpec == StoreInit /\ [][CrashNext]_vars

\* C12: a process restart after a completed save_state restores every field
\* of the watchdog, server_was_running included, to its value at that save
C12_StateSurvivesRestart ==
    [][(/\ ps_boot' # ps_boot
        /\ ps_saved # <<>>
        /\ file = Pickled(data)
        /\ WdRecord(data) = {ps_saved[1]})
          => <<Snapshot, server_was_running>>' = ps_saved]_vars

\* C17: when the process is started again after the calls of set have
\* completed, the loaded mapping has every key at the value set gave it
C17_SetSurvivesRestart ==
    [][ps_boot' # ps_boot => data' = data]_vars

\* C18: when the write of set fails and there was a store file before the
\* call, the sidecar holds what that file held, the mapping in memory has the
\* new value, and the caller goes on
C18_FailedWriteKeepsBackup ==
    [][\A c \in StoreCallers :
          (ps_pc[c] = "write" /\ ps_pc'[c] = "returned" /\ ps_call[c].found # NoFile)
            => /\ backup' = ps_call[c].found
               /\ ps_call[c].key \in DOMAIN data'
               /\ data'[ps_call[c].key] = ps_call[c].value
               /\ ps_lock' = "free"]_vars

C18_Witness ==
    \E c \in StoreCallers :
        /\ ps_pc[c] = "returned"
        /\ ps_call[c].failed
        /\ ps_call[c].found.kind = "mapping"
        /\ ps_call[c].key \in DOMAIN ps_call[c].found.content
        /\ ps_call[c].found.content[ps_call[c].key] # ps_call[c].value
        /\ file = Partial

\* C19: whenever set has returned, the store file holds the mapping in memory
C19_ReturnedSetIsDurable ==
    \A c \in StoreCallers : ps_pc[c] = "returned" => file = Pickled(data)

Complete(f) == f.kind = "mapping"

\* C37: once the store file or its .backup sidecar holds a complete mapping,
\* one of the two holds a complete mapping after every later step, whichever
\* writes fail
C37_GoodCopyKept ==
    [][(Complete(file) \/ Complete(backup)) => (Complete(file') \/ Complete(backup'))]_vars

\* C38: when the process is killed inside save, the mapping the next process
\* loads is the one the file held when set was called (a complete one) or
\* the one set was writing
C38_CrashLoadsBeforeOrAfter ==
    [][\A c \in StoreCallers :
          (/\ ps_pc[c] \in InsideSave
           /\ ps_pc'[c] = "idle"
           /\ Complete(ps_call[c].found))
            => data' \in {ps_call[c].found.content, data}]_vars

\* ========================================= PersistentState._load (L504-513)
\* A process starts on whatever is at the store's path: no file, a file that
\* cannot be opened, the cut-off output of a failed write, or a pickle of some
\* object, a mapping or not.

not_load == <<watchdog_vars, limiter_vars, cmd_vars, store_vars, shutdown_vars,
              shared_vars>>

\* the keys the bots keep in the store (watchdog_bot.py L95, manager_bot.py
\* L454, optimize_bot.py L162)
StoreKeys == {"watchdog_state", "last_performance", "optimization_history"}

StoreValues == {"old", "new"}

\* every mapping of some of the keys
Mappings == UNION {[ks -> StoreValues] : ks \in SUBSET StoreKeys}

\* a file that exists but cannot be opened for reading
Unreadable(d) == [kind |-> "unreadable", content |-> d]

\* a pickle of an object that is no dict (the object is named by its type)
PickledOther(type) == [kind |-> type, content |-> <<type>>]

OtherTypes == {"list", "str", "int", "NoneType"}

LdFiles == {NoFile, Partial}
           \cup {Pickled(d) : d \in Mappings}
           \cup {Unreadable(d) : d \in Mappings}
           \cup {PickledOther(type) : type \in OtherTypes}

IsAnything(obj) == TRUE

\* isinstance(data, dict)
IsDict(obj) == obj.type = "mapping"

\* the process is started again, on the file f: PersistentState.__init__ calls
\* _load (L479)
LdStart ==
    /\ ld_pc = "done"
    /\ \E f \in LdFiles :
         /\ ld_file' = f
         /\ ld_pc' = "exists"
         /\ ld_obj' = NoObject
         /\ ld_data' = <<>>
    /\ UNCHANGED not_load

\* L506: self.filepath.exists(); without a file L513 returns {}
LdExists ==
    /\ ld_pc = "exists"
    /\ IF ld_file.kind = "absent"
       THEN ld_pc' = "done" /\ ld_data' = <<>>
       ELSE ld_pc' = "open" /\ UNCHANGED ld_data
    /\ UNCHANGED <<ld_file, ld_obj, not_load>>

\* L508: open(self.filepath, 'rb'); its exception is caught at L511 and L513
\* returns {}
LdOpen ==
    /\ ld_pc = "open"
    /\ IF ld_file.kind = "unreadable"
       THEN ld_pc' = "done" /\ ld_data' = <<>>
       ELSE ld_pc' = "unpickle" /\ UNCHANGED ld_data
    /\ UNCHANGED <<ld_file, ld_obj, not_load>>

\* L509: data = pickle.load(f); a file that is no complete pickle raises, the
\* exception is caught at L511 and L513 returns {}
LdUnpickle ==
    /\ ld_pc = "unpickle"
    /\ IF ld_file.kind = "partial"
       THEN ld_pc' = "done" /\ ld_data' = <<>> /\ UNCHANGED ld_obj
       ELSE /\ ld_pc' = "isinstance"
            /\ ld_obj' = [type |-> ld_file.kind, value |-> ld_file.content]
            /\ UNCHANGED ld_data
    /\ UNCHANGED <<ld_file, not_load>>

\* L510: return data if isinstance(data, dict) else {}
LdReturn ==
    /\ ld_pc = "isinstance"
    /\ ld_data' = IF IsDict(ld_obj) THEN ld_obj.value ELSE <<>>
    /\ ld_pc' = "done"
    /\ UNCHANGED <<ld_file, ld_obj, not_load>>

LoadNext == LdStart \/ LdExists \/ LdOpen \/ LdUnpickle \/ LdReturn

LoadInit == Init /\ store = {}

LoadSpec == LoadInit /\ [][LoadNext]_vars

\* C21: _load always returns: the mapping of the file if the file can be
\* read and holds a pickled mapping, the empty mapping if the file is absent,
\* cannot be read, cannot be parsed or holds another object
C21_LoadNeverFails ==
    /\ ld_pc = "done" =>
          ld_data = IF ld_file.kind = "mapping" THEN ld_file.content ELSE <<>>
    /\ ld_pc # "done" => ENABLED (LdExists \/ LdOpen \/ LdUnpickle \/ LdReturn)

C21_Witness ==
    /\ ld_pc = "done"
    /\ ld_file \in {PickledOther(type) : type \in OtherTypes}
    /\ ld_obj.type = ld_file.kind

\* ===================================== ShutdownHandler (common.py L578-621)
\* SIGINT or SIGTERM makes the signal handler create a task for shutdown()
\* (L589-592).  shutdown() sets the event, awaits the cleanup task of the
\* watchdog bot, which is `await bot.close()` (watchdog_bot.py L531-538), and
\* calls persistent_state.save().  Closing the bot ends bot.run(TOKEN) (L546):
\* the event loop is torn down, every task still suspended at an await is
\* cancelled there, and the process exits.  Nothing on this path asks for
\* ServerWatchdog._lock or waits for a task of the watchdog.

\* shutdown() starts: L596-605.  With the event already set it returns at
\* once (L596-597)
SdSignal ==
    /\ ~sd_exited
    /\ ~sd_event
    /\ Running = {}
    /\ sd_event' = TRUE
    /\ sd_pc' = "cleanup"
    /\ sd_inflight' = {t \in Restarters : pc[t] = "rs_start"}
    /\ UNCHANGED <<sd_closed, sd_exited>>
    /\ UNCHANGED <<watchdog_vars, limiter_vars, cmd_vars, store_vars, load_vars,
                   shared_vars>>

\* bot.close() has completed (L605); L612: persistent_state.save() writes the
\* mapping in memory, which it leaves as it is; L614
SdBotClosed ==
    /\ ~sd_exited
    /\ sd_pc = "cleanup"
    /\ Running = {}
    /\ sd_closed' = TRUE
    /\ sd_pc' = "done"
    /\ UNCHANGED <<sd_event, sd_exited, sd_inflight>>
    /\ UNCHANGED <<watchdog_vars, limiter_vars, cmd_vars, store_vars, load_vars,
                   shared_vars>>

\* bot.run returns (watchdog_bot.py L546): the tasks are cancelled at the
\* await they are suspended at, `async with` releases the lock, and the
\* process is gone
SdExit ==
    /\ ~sd_exited
    /\ sd_closed
    /\ Running = {}
    /\ sd_exited' = TRUE
    /\ pc' = [t \in Tasks |-> "exited"]
    /\ lock' = "free"
    /\ waiting' = {}
    /\ UNCHANGED <<sd_event, sd_pc, sd_closed, sd_inflight>>
    /\ UNCHANGED <<now, counters, restarts, server_was_running, alert_cooldowns,
                   store, status, reason, history>>
    /\ UNCHANGED <<limiter_vars, cmd_vars, store_vars, load_vars, shared_vars>>

\* The restart in flight is that of the /force_restart command; the daily
\* report and the clock go on beside it.
ShutdownNext ==
    \/ ForceInvoke \/ ForceFollowup
    \/ DailyReport
    \/ \E t \in Restarters : RestartStep(t)
    \/ \E t \in Tasks : SaveState(t)
    \/ Tick
    \/ SdSignal \/ SdBotClosed \/ SdExit

ShutdownInit == Init /\ store = {}

ShutdownSpec == ShutdownInit /\ [][ShutdownNext]_vars

\* C26: the process does not exit while a restart_server that was between
\* its stop and its start when the signal arrived is still there
C26_ExitWaitsForRestart ==
    [][(sd_exited' /\ ~sd_exited)
          => \A t \in sd_inflight : pc[t] # "rs_start"]_vars


\* =================================== one store file, two processes (L472-548)
\* Every bot imports persistent_state from common.py, so each process has an
\* instance of its own on the same path.  The lock of an instance is an
\* asyncio.Lock of its process and holds back no other process; the steps of
\* two processes interleave freely.  Writes succeed here (their failures are
\* the subject of the store's own specification above).

not_shared == <<watchdog_vars, limiter_vars, cmd_vars, store_vars, load_vars,
                shutdown_vars>>

\* the values a process gives its key
OwnValues(p) == IF p = "watchdog" THEN {"state_1", "state_2"} ELSE PerfValues

\* the process is started (again): __init__ loads the file (L477-481)
ShStart(p) ==
    /\ sh_pc[p] = "idle"
    /\ sh_data' = [sh_data EXCEPT ![p] = Load(sh_file)]
    /\ UNCHANGED <<sh_file, sh_backup, sh_pc, sh_last, not_shared>>

\* set(key, value): L544, then save is called
ShSet(p) ==
    /\ sh_pc[p] = "idle"
    /\ \E v \in OwnValues(p) : sh_data' = [sh_data EXCEPT ![p] = MapSet(@, OwnKey(p), v)]
    /\ sh_pc' = [sh_pc EXCEPT ![p] = "rename"]
    /\ UNCHANGED <<sh_file, sh_backup, sh_last, not_shared>>

\* L520-522: an existing file becomes the sidecar
ShRename(p) ==
    /\ sh_pc[p] = "rename"
    /\ IF sh_file # NoFile
       THEN sh_backup' = BackupAfterRename(sh_file, sh_backup) /\ sh_file' = NoFile
       ELSE UNCHANGED <<sh_file, sh_backup>>
    /\ sh_pc' = [sh_pc EXCEPT ![p] = "write"]
    /\ UNCHANGED <<sh_data, sh_last, not_shared>>

\* L524-525: pickle.dump(self.data, f) writes the mapping of this process,
\* all of it and nothing else
ShWrite(p) ==
    /\ sh_pc[p] = "write"
    /\ sh_file' = Pickled(sh_data[p])
    /\ sh_last' = [sh_last EXCEPT ![OwnKey(p)] = sh_data[p][OwnKey(p)]]
    /\ sh_pc' = [sh_pc EXCEPT ![p] = "cleanup"]
    /\ UNCHANGED <<sh_data, sh_backup, not_shared>>

\* L528-533: chmod, the sidecar is deleted, save returns
ShCleanup(p) ==
    /\ sh_pc[p] = "cleanup"
    /\ sh_backup' = NoFile
    /\ sh_pc' = [sh_pc EXCEPT ![p] = "idle"]
    /\ UNCHANGED <<sh_data, sh_file, sh_last, not_shared>>

SharedNext ==
    \E p \in BotProcesses :
        ShStart(p) \/ ShSet(p) \/ ShRename(p) \/ ShWrite(p) \/ ShCleanup(p)

SharedInit == Init /\ store = {}

SharedSpec == SharedInit /\ [][SharedNext]_vars

\* C39: a write of one process leaves in the file, for the key of the other
\* process, the value that process wrote last
C39_OtherKeyKept ==
    [][\A p \in BotProcesses :
          (sh_pc[p] = "write" /\ sh_pc'[p] # "write")
            => \A q \in BotProcesses \ {p} :
                  sh_last[OwnKey(q)] # "none"
                    => /\ OwnKey(q) \in DOMAIN Load(sh_file')
                       /\ Load(sh_file')[OwnKey(q)] = sh_last[OwnKey(q)]]_vars

====
